---- MODULE Spec2Model ----
(***************************************************************************)
(* Model of the two-level trie node cache of primitives/trie/src/cache.rs: *)
(* the process-wide SharedTrieNodeCache (node_cache and the optional       *)
(* data_cache, each behind a parking_lot RwLock), the per-operation        *)
(* LocalTrieNodeCache (a Mutex-protected overlay) and the TrieNodeCache    *)
(* view that holds the guards of the three locks while it is alive.        *)
(*                                                                         *)
(* A HashMap is a function whose DOMAIN is the set of its keys.            *)
(* Every blocking lock acquisition is a step of its own, so that a thread  *)
(* that waits for a lock is a state of the model.                          *)
(***************************************************************************)
EXTENDS Naturals, FiniteSets, TLC

\* ------------------------------------------------------------------ bounds
\* Cap of the counter of successful fetches per Local Cache and hash.
MaxFetch == 2

\* The threads, each working through Local Caches of the one Shared Cache.
Threads == {"t1", "t2", "t3"}
NoThread == "-"

Hashes == {"h1", "h2"}
Nodes == {"n1", "n2"}
Roots == {"r1", "r2"}
Keys == {"k1", "k2"}
\* Option<Bytes>: no value, or some bytes.
NoneBytes == "None"
Values == {NoneBytes, "v1"}

\* Results of lookups that find nothing, a failed fetch, and an unused field.
NoNode == "NoNode"
Absent == "Absent"
FetchErr == "Err"
NoRoot == "-"
NoArg == "-"

VARIABLES
    data_enabled,   \* SharedTrieNodeCache::data_cache is Some
    node_cache,     \* SharedTrieNodeCache::node_cache, Hash -> Node
    data_cache,     \* SharedTrieNodeCache::data_cache, Root -> (Key -> Option<Bytes>)
    local,          \* LocalTrieNodeCache::local of each thread's Local Cache
    pc,             \* position of each thread
    data_mode,      \* TrieNodeCache::data_cache variant of each thread's view
    root,           \* storage root of the thread's pending call or bound view
    fresh,          \* the table of DataCache::Fresh
    node_readers,   \* threads holding a read guard of node_cache
    node_writer,    \* thread holding the writer bit of node_cache
    data_writer,    \* thread holding the write guard of data_cache
    local_locked,   \* the Local Cache's mutex is held (by its view)
    fetched,        \* per Local Cache and hash: successful calls of the fetch callback
    last            \* the call the last step made or completed (an operation on a
                    \* view, merge_into, a release, a direct write) with what it
                    \* returned; NoCall after the other steps

vars == <<data_enabled, node_cache, data_cache, local, pc, data_mode, root, fresh,
          node_readers, node_writer, data_writer, local_locked, fetched, last>>

\* ------------------------------------------------------------- HashMap
EmptyMap == [x \in {} |-> x]

\* HashMap::insert
Put(m, k, v) == [x \in (DOMAIN m) \cup {k} |-> IF x = k THEN v ELSE m[x]]

\* HashMap::extend: the entries of other overwrite those of m
Extend(m, other) ==
    [x \in (DOMAIN m) \cup (DOMAIN other) |-> IF x \in DOMAIN other THEN other[x] ELSE m[x]]

\* HashMap::get, with none the result for a missing key
Get(m, k, none) == IF k \in DOMAIN m THEN m[k] ELSE none

\* HashMap::entry(k).or_default()
EntryOrDefault(m, k) == IF k \in DOMAIN m THEN m ELSE Put(m, k, EmptyMap)

\* The table of root r in the data map dc, empty when r has none
TableOf(dc, r) == Get(dc, r, EmptyMap)

\* What last holds: the operation, its thread, its arguments, what it returned and
\* whether it invoked the fetch callback.
Call(op, t, args, res, f) == [op |-> op, t |-> t, args |-> args, res |-> res, fetch |-> f]
NoCall == Call("-", NoThread, << >>, NoArg, FALSE)

\* ------------------------------------------------------------- construction
\* SharedTrieNodeCache::new(enable_data_cache)
Init ==
    /\ data_enabled \in BOOLEAN
    /\ node_cache = EmptyMap
    /\ data_cache = EmptyMap
    /\ local = [t \in Threads |-> EmptyMap]
    /\ pc = [t \in Threads |-> "idle"]
    /\ data_mode = [t \in Threads |-> "NoView"]
    /\ root = [t \in Threads |-> NoRoot]
    /\ fresh = [t \in Threads |-> EmptyMap]
    /\ node_readers = {}
    /\ node_writer = NoThread
    /\ data_writer = NoThread
    /\ local_locked = [t \in Threads |-> FALSE]
    /\ fetched = [t \in Threads |-> [h \in Hashes |-> 0]]
    /\ last = NoCall

\* SharedTrieNodeCache::local_cache
LocalCache(t) ==
    /\ pc[t] = "idle"
    /\ pc' = [pc EXCEPT ![t] = "local"]
    /\ local' = [local EXCEPT ![t] = EmptyMap]
    /\ fetched' = [fetched EXCEPT ![t] = [h \in Hashes |-> 0]]
    /\ last' = NoCall
    /\ UNCHANGED <<data_enabled, node_cache, data_cache, data_mode, root, fresh,
                   node_readers, node_writer, data_writer, local_locked>>

\* ------------------------------------------------------------- opening a view
\* The guards a view holds are released together when the view is dropped
\* (struct TrieNodeCache, fields shared_cache, local_cache, data_cache).
ReleaseView(t) ==
    /\ node_readers' = node_readers \ {t}
    /\ local_locked' = [local_locked EXCEPT ![t] = FALSE]
    /\ data_writer' = IF data_writer = t THEN NoThread ELSE data_writer
    /\ data_mode' = [data_mode EXCEPT ![t] = "NoView"]
    /\ fresh' = [fresh EXCEPT ![t] = EmptyMap]
    /\ root' = [root EXCEPT ![t] = NoRoot]

\* LocalTrieNodeCache::as_trie_db_cache is called with storage_root r
AsTrieDbCache_Call(t, r) ==
    /\ pc[t] = "local"
    /\ pc' = [pc EXCEPT ![t] = "bind_data"]
    /\ root' = [root EXCEPT ![t] = r]
    /\ last' = NoCall
    /\ UNCHANGED <<data_enabled, node_cache, data_cache, local, data_mode, fresh,
                   node_readers, node_writer, data_writer, local_locked, fetched>>

\* An as_trie_db_cache that takes the table of its root without waiting for the
\* write lock of the data cache
AsTrieDbCache_Data_NotExclusive(t) ==
    /\ pc[t] = "bind_data"
    /\ IF data_enabled
         THEN /\ data_writer' = t
              /\ data_cache' = EntryOrDefault(data_cache, root[t])
              /\ data_mode' = [data_mode EXCEPT ![t] = "ForStorageRoot"]
              /\ root' = root
         ELSE /\ data_mode' = [data_mode EXCEPT ![t] = "Disabled"]
              /\ root' = [root EXCEPT ![t] = NoRoot]
              /\ UNCHANGED <<data_writer, data_cache>>
    /\ pc' = [pc EXCEPT ![t] = "bind_node"]
    /\ last' = NoCall
    /\ UNCHANGED <<data_enabled, node_cache, local, fresh, node_readers, node_writer,
                   local_locked, fetched>>

\* as_trie_db_cache, the data cache: cache.write() and entry(storage_root).or_default(),
\* or DataCache::Disabled without any lock
AsTrieDbCache_Data(t) ==
    /\ pc[t] = "bind_data"
    /\ IF data_enabled
         THEN /\ data_writer = NoThread
              /\ data_writer' = t
              /\ data_cache' = EntryOrDefault(data_cache, root[t])
              /\ data_mode' = [data_mode EXCEPT ![t] = "ForStorageRoot"]
              /\ root' = root
         ELSE /\ data_mode' = [data_mode EXCEPT ![t] = "Disabled"]
              /\ root' = [root EXCEPT ![t] = NoRoot]
              /\ UNCHANGED <<data_writer, data_cache>>
    /\ pc' = [pc EXCEPT ![t] = "bind_node"]
    /\ last' = NoCall
    /\ UNCHANGED <<data_enabled, node_cache, local, fresh, node_readers, node_writer,
                   local_locked, fetched>>

\* as_trie_db_cache, the node layer: node_cache.read() and local.lock().
\* A read of a parking_lot RwLock waits while a writer holds the writer bit,
\* also when that writer itself still waits for the readers to leave.
\* The Local Cache's mutex is free here, its only user being its own thread.
AsTrieDbCache_Node(t) ==
    /\ pc[t] = "bind_node"
    /\ node_writer = NoThread
    /\ ~local_locked[t]
    /\ node_readers' = node_readers \cup {t}
    /\ local_locked' = [local_locked EXCEPT ![t] = TRUE]
    /\ pc' = [pc EXCEPT ![t] = "view"]
    /\ last' = NoCall
    /\ UNCHANGED <<data_enabled, node_cache, data_cache, local, data_mode, root, fresh,
                   node_writer, data_writer, fetched>>

\* LocalTrieNodeCache::as_trie_db_mut_cache is called
AsTrieDbMutCache_Call(t) ==
    /\ pc[t] = "local"
    /\ pc' = [pc EXCEPT ![t] = "mbind_node"]
    /\ last' = NoCall
    /\ UNCHANGED <<data_enabled, node_cache, data_cache, local, data_mode, root, fresh,
                   node_readers, node_writer, data_writer, local_locked, fetched>>

\* as_trie_db_mut_cache: node_cache.read(), local.lock(), DataCache::Fresh(empty)
AsTrieDbMutCache_Node(t) ==
    /\ pc[t] = "mbind_node"
    /\ node_writer = NoThread
    /\ ~local_locked[t]
    /\ node_readers' = node_readers \cup {t}
    /\ local_locked' = [local_locked EXCEPT ![t] = TRUE]
    /\ data_mode' = [data_mode EXCEPT ![t] = "Fresh"]
    /\ fresh' = [fresh EXCEPT ![t] = EmptyMap]
    /\ pc' = [pc EXCEPT ![t] = "view"]
    /\ last' = NoCall
    /\ UNCHANGED <<data_enabled, node_cache, data_cache, local, root,
                   node_writer, data_writer, fetched>>

\* drop of a TrieNodeCache without merge_into
DropView(t) ==
    /\ pc[t] = "view"
    /\ ReleaseView(t)
    /\ pc' = [pc EXCEPT ![t] = "local"]
    /\ last' = NoCall
    /\ UNCHANGED <<data_enabled, node_cache, data_cache, local, node_writer, fetched>>

\* ------------------------------------------------------------- the data cache
\* enum DataCache: the table a variant holds, given the Fresh table fr of the view,
\* the shared data map dc and the root rt the view is bound to; Disabled holds none
ViewTable(mode, fr, dc, rt) ==
    CASE mode = "Fresh" -> fr
      [] mode = "ForStorageRoot" -> dc[rt]
      [] OTHER -> EmptyMap

\* A get that reports a recorded no-value entry as a key never recorded
DataCacheGet_NoneIsAbsent(t, key) ==
    LET e == CASE data_mode[t] = "Disabled" -> Absent
               [] data_mode[t] = "Fresh" -> Get(fresh[t], key, Absent)
               [] data_mode[t] = "ForStorageRoot" -> Get(data_cache[root[t]], key, Absent)
    IN  IF e = NoneBytes THEN Absent ELSE e

\* DataCache::get
DataCacheGet(t, key) ==
    CASE data_mode[t] = "Disabled" -> Absent
      [] data_mode[t] = "Fresh" -> Get(fresh[t], key, Absent)
      [] data_mode[t] = "ForStorageRoot" -> Get(data_cache[root[t]], key, Absent)

\* DataCache::insert, what it leaves in the Fresh table of the view
DataCacheInsertFresh(t, key, data) ==
    IF data_mode[t] = "Fresh" THEN Put(fresh[t], key, data) ELSE fresh[t]

\* An insert that takes a no-value entry for the removal of the key
DataCacheInsertShared_NoneRemoves(t, key, data) ==
    IF data_mode[t] = "ForStorageRoot"
      THEN [data_cache EXCEPT ![root[t]] =
              IF data = NoneBytes THEN [x \in (DOMAIN @) \ {key} |-> @[x]] ELSE Put(@, key, data)]
      ELSE data_cache

\* An insert that a Fresh view writes through to the shared tables
DataCacheInsertShared_FreshLeaks(t, key, data) ==
    CASE data_mode[t] = "ForStorageRoot" -> [data_cache EXCEPT ![root[t]] = Put(@, key, data)]
      [] data_mode[t] = "Fresh" -> [r \in DOMAIN data_cache |-> Put(data_cache[r], key, data)]
      [] OTHER -> data_cache

\* An insert that a bound view keeps to itself
DataCacheInsertShared_NotLive(t, key, data) == data_cache

\* DataCache::insert, what it leaves in the shared data map (written through the
\* mapped write guard of ForStorageRoot)
DataCacheInsertShared(t, key, data) ==
    IF data_mode[t] = "ForStorageRoot"
      THEN [data_cache EXCEPT ![root[t]] = Put(@, key, data)]
      ELSE data_cache

\* TrieNodeCache::lookup_data_for_key
LookupDataForKey(t, key) ==
    /\ pc[t] = "view"
    /\ last' = Call("lookup_data_for_key", t, <<key>>, DataCacheGet(t, key), FALSE)
    /\ UNCHANGED <<data_enabled, node_cache, data_cache, local, pc, data_mode, root, fresh,
                   node_readers, node_writer, data_writer, local_locked, fetched>>

\* TrieNodeCache::cache_data_for_key
CacheDataForKey(t, key, data) ==
    /\ pc[t] = "view"
    /\ fresh' = [fresh EXCEPT ![t] = DataCacheInsertFresh(t, key, data)]
    /\ data_cache' = DataCacheInsertShared(t, key, data)
    /\ last' = Call("cache_data_for_key", t, <<key, data>>, NoArg, FALSE)
    /\ UNCHANGED <<data_enabled, node_cache, local, pc, data_mode, root,
                   node_readers, node_writer, data_writer, local_locked, fetched>>

\* ------------------------------------------------------------- the node layer
\* A get_or_insert_node that does not look into the shared node map
NeedsFetch_LocalOnly(t, hash) == hash \notin DOMAIN local[t]

\* get_or_insert_node: neither map has the hash, the fetch callback is called
NeedsFetch(t, hash) == hash \notin DOMAIN node_cache /\ hash \notin DOMAIN local[t]

\* A get_or_insert_node that looks into the overlay before the shared node map
GetOrInsertNodeResult_LocalFirst(t, hash, outcome) ==
    IF hash \in DOMAIN local[t] THEN local[t][hash]
    ELSE IF hash \in DOMAIN node_cache THEN node_cache[hash]
    ELSE outcome

\* get_or_insert_node, what it returns; outcome is what fetch_node returns if it is
\* called: a node, or FetchErr
GetOrInsertNodeResult(t, hash, outcome) ==
    IF hash \in DOMAIN node_cache THEN node_cache[hash]
    ELSE IF hash \in DOMAIN local[t] THEN local[t][hash]
    ELSE outcome

\* A get_or_insert_node that fills the vacant entry also when the fetch failed
GetOrInsertNodeLocal_CachesError(t, hash, outcome) ==
    IF hash \notin DOMAIN node_cache /\ hash \notin DOMAIN local[t]
      THEN Put(local[t], hash, IF outcome = FetchErr THEN "n1" ELSE outcome)
      ELSE local[t]

\* get_or_insert_node, the overlay it leaves: vacant.insert(node) after a fetch that
\* succeeded
GetOrInsertNodeLocal(t, hash, outcome) ==
    IF NeedsFetch(t, hash) /\ outcome # FetchErr THEN Put(local[t], hash, outcome) ELSE local[t]

\* TrieNodeCache::get_or_insert_node
GetOrInsertNode(t, hash, outcome) ==
    /\ pc[t] = "view"
    /\ NeedsFetch(t, hash) /\ outcome # FetchErr => fetched[t][hash] < MaxFetch
    /\ local' = [local EXCEPT ![t] = GetOrInsertNodeLocal(t, hash, outcome)]
    /\ fetched' = IF NeedsFetch(t, hash) /\ outcome # FetchErr
                    THEN [fetched EXCEPT ![t][hash] = @ + 1]
                    ELSE fetched
    /\ last' = Call("get_or_insert_node", t, <<hash>>,
                    GetOrInsertNodeResult(t, hash, outcome), NeedsFetch(t, hash))
    /\ UNCHANGED <<data_enabled, node_cache, data_cache, pc, data_mode, root, fresh,
                   node_readers, node_writer, data_writer, local_locked>>

\* An insert_node that keeps the node the overlay already holds under the hash
InsertNode_KeepsOccupied(t, hash, node) ==
    /\ pc[t] = "view"
    /\ local' = [local EXCEPT ![t] = IF hash \in DOMAIN @ THEN @ ELSE Put(@, hash, node)]
    /\ last' = Call("insert_node", t, <<hash, node>>, NoArg, FALSE)
    /\ UNCHANGED <<data_enabled, node_cache, data_cache, pc, data_mode, root, fresh,
                   node_readers, node_writer, data_writer, local_locked, fetched>>

\* An insert_node that writes the shared node map
InsertNode_WritesShared(t, hash, node) ==
    /\ pc[t] = "view"
    /\ node_cache' = Put(node_cache, hash, node)
    /\ last' = Call("insert_node", t, <<hash, node>>, NoArg, FALSE)
    /\ UNCHANGED <<data_enabled, local, data_cache, pc, data_mode, root, fresh,
                   node_readers, node_writer, data_writer, local_locked, fetched>>

\* TrieNodeCache::insert_node
InsertNode(t, hash, node) ==
    /\ pc[t] = "view"
    /\ local' = [local EXCEPT ![t] = Put(@, hash, node)]
    /\ last' = Call("insert_node", t, <<hash, node>>, NoArg, FALSE)
    /\ UNCHANGED <<data_enabled, node_cache, data_cache, pc, data_mode, root, fresh,
                   node_readers, node_writer, data_writer, local_locked, fetched>>

\* TrieNodeCache::get_node
GetNodeResult(t, hash) ==
    IF hash \in DOMAIN node_cache THEN node_cache[hash] ELSE Get(local[t], hash, NoNode)

GetNode(t, hash) ==
    /\ pc[t] = "view"
    /\ last' = Call("get_node", t, <<hash>>, GetNodeResult(t, hash), FALSE)
    /\ UNCHANGED <<data_enabled, node_cache, data_cache, local, pc, data_mode, root, fresh,
                   node_readers, node_writer, data_writer, local_locked, fetched>>

\* ------------------------------------------------------------- merge_into
\* A merge_into that goes on to data_cache.write() whatever the variant of the view
MergeInto_Call_AnyMode(t, storage_root) ==
    /\ pc[t] = "view"
    /\ IF data_enabled
         THEN /\ pc' = [pc EXCEPT ![t] = "merge_data"]
              /\ root' = [root EXCEPT ![t] = storage_root]
              /\ last' = NoCall
              /\ UNCHANGED <<node_readers, local_locked, data_writer, data_mode, fresh>>
         ELSE /\ ReleaseView(t)
              /\ pc' = [pc EXCEPT ![t] = "local"]
              /\ last' = Call("merge_into", t, <<storage_root>>, NoArg, FALSE)
    /\ UNCHANGED <<data_enabled, node_cache, data_cache, local, node_writer, fetched>>

\* TrieNodeCache::merge_into(self, local, storage_root): a view that is not Fresh
\* returns at once, a Fresh one of a Shared Cache without data cache has nothing
\* to do; both drop the view and the call is complete. Otherwise the call goes on
\* to data_cache.write().
MergeInto_Call(t, storage_root) ==
    /\ pc[t] = "view"
    /\ IF data_mode[t] = "Fresh" /\ data_enabled
         THEN /\ pc' = [pc EXCEPT ![t] = "merge_data"]
              /\ root' = [root EXCEPT ![t] = storage_root]
              /\ last' = NoCall
              /\ UNCHANGED <<node_readers, local_locked, data_writer, data_mode, fresh>>
         ELSE /\ ReleaseView(t)
              /\ pc' = [pc EXCEPT ![t] = "local"]
              /\ last' = Call("merge_into", t, <<storage_root>>, NoArg, FALSE)
    /\ UNCHANGED <<data_enabled, node_cache, data_cache, local, node_writer, fetched>>

\* A merge in which the entries the table already holds win over the Fresh ones
MergedData_EarlierWins(t) ==
    [EntryOrDefault(data_cache, root[t]) EXCEPT ![root[t]] = Extend(fresh[t], @)]

\* A merge that extends the table of every root
MergedData_EveryRoot(t) ==
    [r \in (DOMAIN data_cache) \cup {root[t]} |-> Extend(TableOf(data_cache, r), fresh[t])]

\* A merge that replaces the table of the root instead of extending it
MergedData_Replaced(t) == Put(data_cache, root[t], fresh[t])

\* The shared data map after entry(storage_root).or_default().extend(cache)
MergedData(t) ==
    [EntryOrDefault(data_cache, root[t]) EXCEPT ![root[t]] = Extend(@, fresh[t])]

\* merge_into: data_cache.write(), the extend, the write guard released at the end
\* of the statement, and the rest of the view (node_cache read guard, local mutex)
\* released at the end of the function. last keeps the Fresh table the call
\* consumed and, as its result, the table entry(storage_root).or_default() gave
\* it, before the extend.
MergeInto_Data(t) ==
    /\ pc[t] = "merge_data"
    /\ data_writer = NoThread
    /\ data_cache' = MergedData(t)
    /\ ReleaseView(t)
    /\ pc' = [pc EXCEPT ![t] = "local"]
    /\ last' = Call("merge_into", t, <<root[t], fresh[t]>>, TableOf(data_cache, root[t]), FALSE)
    /\ UNCHANGED <<data_enabled, node_cache, local, node_writer, fetched>>

\* ------------------------------------------------------------- release
\* drop(LocalTrieNodeCache) is called
Drop_Call(t) ==
    /\ pc[t] = "local"
    /\ pc' = [pc EXCEPT ![t] = "drop"]
    /\ last' = NoCall
    /\ UNCHANGED <<data_enabled, node_cache, data_cache, local, data_mode, root, fresh,
                   node_readers, node_writer, data_writer, local_locked, fetched>>

\* node_cache.write(), first half: take the writer bit; from here on new readers wait
Drop_WriterBit(t) ==
    /\ pc[t] = "drop"
    /\ node_writer = NoThread
    /\ node_writer' = t
    /\ pc' = [pc EXCEPT ![t] = "drop_wait"]
    /\ last' = NoCall
    /\ UNCHANGED <<data_enabled, node_cache, data_cache, local, data_mode, root, fresh,
                   node_readers, data_writer, local_locked, fetched>>

\* A release that drains the overlay without extending the shared map
Promoted_Dropped(t) == node_cache

\* The shared node map after shared.extend(self.local.lock().drain())
Promoted(t) == Extend(node_cache, local[t])

\* A release that writes the shared node map without waiting for the readers
Drop_Finish_IgnoresReaders(t) ==
    /\ pc[t] = "drop_wait"
    /\ ~local_locked[t]
    /\ node_cache' = Promoted(t)
    /\ local' = [local EXCEPT ![t] = EmptyMap]
    /\ node_writer' = NoThread
    /\ pc' = [pc EXCEPT ![t] = "idle"]
    /\ last' = Call("drop", t, << >>, NoArg, FALSE)
    /\ UNCHANGED <<data_enabled, data_cache, data_mode, root, fresh,
                   node_readers, data_writer, local_locked, fetched>>

\* node_cache.write(), second half: the readers have left; extend, drain, unlock
Drop_Finish(t) ==
    /\ pc[t] = "drop_wait"
    /\ node_readers = {}
    /\ ~local_locked[t]
    /\ node_cache' = Promoted(t)
    /\ local' = [local EXCEPT ![t] = EmptyMap]
    /\ node_writer' = NoThread
    /\ pc' = [pc EXCEPT ![t] = "idle"]
    /\ last' = Call("drop", t, << >>, NoArg, FALSE)
    /\ UNCHANGED <<data_enabled, data_cache, data_mode, root, fresh,
                   node_readers, data_writer, local_locked, fetched>>

\* ------------------------------------------------------------- direct write
\* tests::basic_cache_works writes into the shared table itself:
\* data_cache.write().entry(root).or_default().insert(key, data)
DirectInsert(r, key, data) ==
    /\ data_enabled
    /\ data_writer = NoThread
    /\ data_cache' = [EntryOrDefault(data_cache, r) EXCEPT ![r] = Put(@, key, data)]
    /\ last' = Call("direct_insert", NoThread, <<r, key, data>>, NoArg, FALSE)
    /\ UNCHANGED <<data_enabled, node_cache, local, pc, data_mode, root, fresh,
                   node_readers, node_writer, data_writer, local_locked, fetched>>

\* ------------------------------------------------------------- specifications
\* The steps that take a thread through Local Caches and views
Lifecycle(t, R) ==
    \/ LocalCache(t)
    \/ \E r \in R : AsTrieDbCache_Call(t, r)
    \/ AsTrieDbCache_Data(t)
    \/ AsTrieDbCache_Node(t)
    \/ AsTrieDbMutCache_Call(t)
    \/ AsTrieDbMutCache_Node(t)
    \/ DropView(t)
    \/ \E r \in R : MergeInto_Call(t, r)
    \/ MergeInto_Data(t)
    \/ Drop_Call(t)
    \/ Drop_WriterBit(t)
    \/ Drop_Finish(t)

\* The node layer of a view, over hashes H and nodes N
NodeOps(t, H, N) ==
    \/ \E h \in H, o \in N \cup {FetchErr} : GetOrInsertNode(t, h, o)
    \/ \E h \in H, n \in N : InsertNode(t, h, n)
    \/ \E h \in H : GetNode(t, h)

\* The data cache of a view, over keys K and values V
DataOps(t, K, V) ==
    \/ \E k \in K : LookupDataForKey(t, k)
    \/ \E k \in K, v \in V : CacheDataForKey(t, k, v)

\* SpecNode: two threads, the whole node layer over two hashes; the data cache,
\* which shares no state with the node layer, over one root, key and value.
NextNode ==
    \E t \in {"t1", "t2"} :
        \/ Lifecycle(t, {"r1"})
        \/ NodeOps(t, Hashes, {"n1"})
        \/ DataOps(t, {"k1"}, {"v1"})

SpecNode == Init /\ [][NextNode]_vars

\* SpecData: two threads, the whole data cache over two roots, keys and values;
\* the calls of the node layer are left out.
NextData ==
    \/ \E t \in {"t1", "t2"} :
        \/ Lifecycle(t, Roots)
        \/ DataOps(t, Keys, Values)
    \/ \E r \in Roots, k \in Keys, v \in Values : DirectInsert(r, k, v)

SpecData == Init /\ [][NextData]_vars

\* SpecLock: three threads and the writes of both layers, over two roots and one
\* hash, node, key and value; the lookups, which take no lock, are left out.
NextLock ==
    \E t \in Threads :
        \/ Lifecycle(t, Roots)
        \/ InsertNode(t, "h1", "n1")
        \/ CacheDataForKey(t, "k1", "v1")

SpecLock == Init /\ [][NextLock]_vars

\* SpecValue: two threads and the whole node layer over one hash and two nodes, so
\* that the shared node map and an overlay can hold different nodes under the same
\* hash; insert_node takes the hash and the node as independent arguments. The
\* calls of the data cache are left out.
NextValue ==
    \E t \in {"t1", "t2"} :
        \/ Lifecycle(t, {"r1"})
        \/ NodeOps(t, {"h1"}, Nodes)

SpecValue == Init /\ [][NextValue]_vars

\* ------------------------------------------------------------- waiting threads
\* The thread is inside a call, at a lock acquisition
Waiting(t) ==
    pc[t] \in {"bind_data", "bind_node", "mbind_node", "merge_data", "drop", "drop_wait"}

\* The thread is inside a call and the lock it is about to take is not available
Blocked(t) ==
    /\ Waiting(t)
    /\ ~ENABLED (\/ AsTrieDbCache_Data(t)
                 \/ AsTrieDbCache_Node(t)
                 \/ AsTrieDbMutCache_Node(t)
                 \/ MergeInto_Data(t)
                 \/ Drop_WriterBit(t)
                 \/ Drop_Finish(t))

\* ------------------------------------------------------------- C1
\* C1: the step that completes the release of a Local Cache leaves every entry of
\* its overlay (hash and node) in the shared node map and the overlay empty.
C1_ReleasePromotes ==
    [][\A t \in Threads :
          (pc[t] = "drop_wait" /\ pc'[t] = "idle") =>
              /\ \A h \in DOMAIN local[t] :
                    h \in DOMAIN node_cache' /\ node_cache'[h] = local[t][h]
              /\ local'[t] = EmptyMap]_vars

\* Both Local Caches are released and between them they promoted every hash.
C1_Released ==
    /\ pc["t1"] = "idle" /\ pc["t2"] = "idle"
    /\ DOMAIN node_cache = Hashes

\* ------------------------------------------------------------- C2
\* C2: no reachable state is a deadlock: it never happens that every thread is
\* inside a call, waiting for a lock that is not available.
C2_NoDeadlock == ~(\A t \in Threads : Blocked(t))

\* ------------------------------------------------------------- C3
\* C3: while a read view bound to a root R1 is alive, as_trie_db_cache for another
\* root R2 does not wait for the data cache.
C3_DifferentRootsDoNotContend ==
    \A t1, t2 \in Threads :
        ( /\ pc[t1] = "view" /\ data_mode[t1] = "ForStorageRoot"
          /\ pc[t2] = "bind_data" /\ root[t2] # root[t1] )
        => ~Blocked(t2)

\* ------------------------------------------------------------- C4
\* C4: root isolation. The table of a root changes only in a step that addresses
\* that root: a record through a view bound to it, the merge_into of a Fresh view
\* with that root, or a direct write to it; binding a read view for a root without
\* table creates the table empty; and a lookup through a bound view returns absent
\* for every key that the table of its own root does not hold.
C4_RootIsolation ==
    /\ [][\A r \in Roots :
            TableOf(data_cache', r) # TableOf(data_cache, r) =>
              \/ /\ last'.op = "cache_data_for_key"
                 /\ data_mode[last'.t] = "ForStorageRoot" /\ root[last'.t] = r
              \/ \E t \in Threads : pc[t] = "merge_data" /\ pc'[t] = "local" /\ root[t] = r
              \/ last'.op = "direct_insert" /\ last'.args[1] = r]_vars
    /\ [][\A t \in Threads :
            (pc[t] = "bind_data" /\ pc'[t] = "bind_node" /\ data_enabled) =>
              /\ root[t] \in DOMAIN data_cache'
              /\ root[t] \notin DOMAIN data_cache => data_cache'[root[t]] = EmptyMap]_vars
    /\ [](( /\ last.op = "lookup_data_for_key"
            /\ data_mode[last.t] = "ForStorageRoot"
            /\ last.args[1] \notin DOMAIN TableOf(data_cache, root[last.t]) )
          => last.res = Absent)

\* A lookup through a view bound to r2 returned absent for a key that the table
\* of r1 holds.
C4_OtherRootAbsent ==
    /\ last.op = "lookup_data_for_key"
    /\ data_mode[last.t] = "ForStorageRoot" /\ root[last.t] = "r2"
    /\ last.res = Absent
    /\ last.args[1] \in DOMAIN TableOf(data_cache, "r1")

\* ------------------------------------------------------------- C5
\* C5: unmerged-write discard. The shared data map changes only when a read view
\* is bound (a new, empty table), in a record through a bound view, when
\* merge_into completes, or in a direct write: never in a record through a Fresh
\* view, in the close of a view or in the release of a Local Cache.
C5_UnmergedWriteDiscarded ==
    [][data_cache' # data_cache =>
          \/ \E t \in Threads : pc[t] = "bind_data" /\ pc'[t] = "bind_node"
          \/ last'.op = "cache_data_for_key" /\ data_mode[last'.t] = "ForStorageRoot"
          \/ last'.op = "merge_into"
          \/ last'.op = "direct_insert"]_vars

\* A write view has just recorded an entry that no shared table holds.
C5_RecordedNotShared ==
    /\ last.op = "cache_data_for_key"
    /\ data_mode[last.t] = "Fresh"
    /\ fresh[last.t][last.args[1]] = last.args[2]
    /\ DOMAIN data_cache # {}
    /\ \A r \in DOMAIN data_cache : last.args[1] \notin DOMAIN data_cache[r]

\* ------------------------------------------------------------- C6
\* C6: the step that completes merge_into(new_root) leaves in the table of new_root
\* every entry of the Fresh table, keeps the entries of that table whose keys the
\* Fresh table does not hold, adds no other key, and leaves the tables of all other
\* roots as they were.
C6_MergeExtends ==
    [][\A t \in Threads :
          (pc[t] = "merge_data" /\ pc'[t] = "local") =>
            LET r == root[t]
                old == TableOf(data_cache, r)
            IN  /\ r \in DOMAIN data_cache'
                /\ DOMAIN data_cache'[r] = (DOMAIN old) \cup (DOMAIN fresh[t])
                /\ \A k \in DOMAIN fresh[t] : data_cache'[r][k] = fresh[t][k]
                /\ \A k \in (DOMAIN old) \ (DOMAIN fresh[t]) : data_cache'[r][k] = old[k]
                /\ DOMAIN data_cache' = (DOMAIN data_cache) \cup {r}
                /\ \A r2 \in (DOMAIN data_cache) \ {r} : data_cache'[r2] = data_cache[r2]]_vars

\* A merge_into has completed into a table that now holds both keys, one of them
\* overwritten and one kept, while the other root has a table with an entry of
\* its own.
C6_Merged ==
    /\ last.op = "merge_into" /\ 2 \in DOMAIN last.args
    /\ \E k \in (DOMAIN last.args[2]) \cap (DOMAIN last.res) : last.args[2][k] # last.res[k]
    /\ (DOMAIN last.res) \ (DOMAIN last.args[2]) # {}
    /\ DOMAIN TableOf(data_cache, last.args[1]) = Keys
    /\ \E r \in Roots \ {last.args[1]} :
          /\ TableOf(data_cache, r) # EmptyMap
          /\ TableOf(data_cache, r) # TableOf(data_cache, last.args[1])

\* ------------------------------------------------------------- C7
\* C7: a get_or_insert_node whose fetch fails returns the error and changes neither
\* the overlay, nor the shared node map, nor the data cache of the view; get_node
\* of the same hash still finds nothing.
C7_FetchFailureCachesNothing ==
    /\ [][(last'.op = "get_or_insert_node" /\ last'.res = FetchErr) =>
            UNCHANGED <<local, node_cache, fresh, data_cache, data_mode, root, fetched>>]_vars
    /\ [](\A t \in Threads, h \in Hashes :
            (h \notin DOMAIN node_cache /\ h \notin DOMAIN local[t]) =>
              GetOrInsertNodeResult(t, h, FetchErr) = FetchErr)
    /\ []((last.op = "get_or_insert_node" /\ last.res = FetchErr) =>
            /\ last.fetch
            /\ GetNodeResult(last.t, last.args[1]) = NoNode)

\* A fetch has just failed in a write view that holds a recorded entry and an
\* overlay entry of another hash.
C7_FetchFailed ==
    /\ last.op = "get_or_insert_node" /\ last.res = FetchErr
    /\ fresh[last.t] # EmptyMap
    /\ local[last.t] # EmptyMap

\* ------------------------------------------------------------- C8
\* C8: only the step that completes a release changes the shared node map, and
\* get_node finds nothing for a hash that is neither in the shared node map nor in
\* the overlay of the view's own Local Cache.
C8_NodeOpsKeepShared ==
    /\ [][node_cache' # node_cache =>
            \E t \in Threads : pc[t] = "drop_wait" /\ pc'[t] = "idle"]_vars
    /\ []((last.op = "get_node" /\ last.res # NoNode) =>
            \/ last.args[1] \in DOMAIN node_cache
            \/ last.args[1] \in DOMAIN local[last.t])

\* The shared node map is still empty while a Local Cache whose view is closed
\* holds a node, and get_node through the other Local Cache did not find it.
C8_NotYetShared ==
    /\ node_cache = EmptyMap
    /\ last.op = "get_node" /\ last.res = NoNode
    /\ \E t \in Threads \ {last.t} : pc[t] = "local" /\ last.args[1] \in DOMAIN local[t]

\* ------------------------------------------------------------- C9
\* C9: get_or_insert_node invokes the fetch callback if and only if the hash is in
\* neither the shared node map nor the overlay; a hash of the shared node map stays
\* in it, so that no later call for it fetches; and a Local Cache fetches a hash
\* successfully at most once.
C9_FetchOnlyWhenUncached ==
    /\ [][last'.op = "get_or_insert_node" =>
            (last'.fetch <=> ( /\ last'.args[1] \notin DOMAIN node_cache
                               /\ last'.args[1] \notin DOMAIN local[last'.t] ))]_vars
    /\ [][\A h \in DOMAIN node_cache : h \in DOMAIN node_cache']_vars
    /\ [](\A t \in Threads, h \in Hashes : fetched[t][h] <= 1)

\* A get_or_insert_node was served from the shared node map, without a fetch, to a
\* Local Cache whose overlay does not hold the hash.
C9_ServedFromShared ==
    /\ last.op = "get_or_insert_node" /\ ~last.fetch
    /\ last.args[1] \in DOMAIN node_cache
    /\ last.args[1] \notin DOMAIN local[last.t]

\* ------------------------------------------------------------- C10
\* C10: a record through a view bound to a root writes the shared table of that
\* root and no Fresh table, and a lookup through a bound view returns what the
\* shared table of its root holds for the key.
C10_BoundViewIsLive ==
    /\ [][(last'.op = "cache_data_for_key" /\ data_mode[last'.t] = "ForStorageRoot") =>
            /\ last'.args[1] \in DOMAIN data_cache'[root[last'.t]]
            /\ data_cache'[root[last'.t]][last'.args[1]] = last'.args[2]
            /\ fresh' = fresh]_vars
    /\ []((last.op = "lookup_data_for_key" /\ data_mode[last.t] = "ForStorageRoot") =>
            last.res = Get(data_cache[root[last.t]], last.args[1], Absent))

\* A lookup through a bound view returned a value of the shared table.
C10_LookupHit ==
    /\ last.op = "lookup_data_for_key"
    /\ data_mode[last.t] = "ForStorageRoot"
    /\ last.res = "v1"

\* ------------------------------------------------------------- C11
\* C11: merge_into on a view that as_trie_db_cache created (ForStorageRoot or
\* Disabled), with any storage_root, completes in the step that calls it, leaves
\* the shared data map, the shared node map and the overlay unchanged, and is
\* never found waiting for the lock of the data cache.
C11_MergeIntoNoOpUnlessFresh ==
    /\ [][\A t \in Threads :
            ( /\ pc[t] = "view" /\ data_mode[t] \in {"ForStorageRoot", "Disabled"}
              /\ last'.op = "merge_into" /\ last'.t = t )
            => /\ UNCHANGED <<data_cache, node_cache, local>>
               /\ pc'[t] = "local"]_vars
    /\ [](\A t \in Threads : pc[t] = "merge_data" => data_mode[t] = "Fresh")
    /\ [](\A t \in Threads, r \in Roots :
            (pc[t] = "view" /\ data_mode[t] \in {"ForStorageRoot", "Disabled"}) =>
              ENABLED (MergeInto_Call(t, r) /\ pc'[t] = "local"))

\* A merge_into of a bound view has just returned: it named a root that has no
\* table, and the shared maps and the overlay of its Local Cache hold entries.
C11_BoundViewMerged ==
    /\ data_enabled
    /\ last.op = "merge_into" /\ DOMAIN last.args = {1}
    /\ last.args[1] \notin DOMAIN data_cache
    /\ \E r \in DOMAIN data_cache : data_cache[r] # EmptyMap
    /\ node_cache # EmptyMap
    /\ local[last.t] # EmptyMap

C13_LookupRecordPerMode ==
    /\ []((last.op = "lookup_data_for_key" /\ data_mode[last.t] = "Disabled") =>
            last.res = Absent)
    /\ [][(last'.op = "cache_data_for_key" /\ data_mode[last'.t] = "Disabled") =>
            UNCHANGED <<fresh, data_cache>>]_vars
    /\ [][(last'.op = "cache_data_for_key" /\ data_mode[last'.t] # "Disabled") =>
            LET t == last'.t
                table == ViewTable(data_mode'[t], fresh'[t], data_cache', root'[t])
            IN  /\ last'.args[1] \in DOMAIN table
                /\ table[last'.args[1]] = last'.args[2]]_vars
    /\ [][\A t \in Threads, k \in Keys :
            ( /\ pc[t] = "view" /\ pc'[t] = "view"
              /\ Get(ViewTable(data_mode'[t], fresh'[t], data_cache', root'[t]), k, Absent)
                   # Get(ViewTable(data_mode[t], fresh[t], data_cache, root[t]), k, Absent) )
            => last'.op = "cache_data_for_key" /\ last'.t = t /\ last'.args[1] = k]_vars
    /\ [](last.op = "lookup_data_for_key" =>
            LET t == last.t
                table == ViewTable(data_mode[t], fresh[t], data_cache, root[t])
            IN  /\ last.args[1] \in DOMAIN table => last.res = table[last.args[1]]
                /\ last.args[1] \notin DOMAIN table => last.res = Absent)
    /\ NoneBytes # Absent

\* A lookup has returned a recorded no-value entry.
C13_NoValueEntryReturned ==
    /\ last.op = "lookup_data_for_key"
    /\ data_mode[last.t] \in {"Fresh", "ForStorageRoot"}
    /\ last.res = NoneBytes

\* ------------------------------------------------------------- C14
\* C14: at most one view is bound to a root at a time and it holds the write guard
\* of the data cache; while a view stays bound to a root, the table of that root
\* changes only in a record through that view; and a merge_into or an
\* as_trie_db_cache for that root that arrived meanwhile is still waiting.
C14_BoundTableExclusive ==
    /\ [](\A t1, t2 \in Threads :
            (data_mode[t1] = "ForStorageRoot" /\ data_mode[t2] = "ForStorageRoot") => t1 = t2)
    /\ [](\A t \in Threads : data_mode[t] = "ForStorageRoot" => data_writer = t)
    /\ [][\A t \in Threads :
            ( /\ data_mode[t] = "ForStorageRoot" /\ data_mode'[t] = "ForStorageRoot"
              /\ data_cache'[root[t]] # data_cache[root[t]] )
            => last'.op = "cache_data_for_key" /\ last'.t = t]_vars
    /\ [](\A t, u \in Threads :
            ( /\ data_mode[t] = "ForStorageRoot"
              /\ pc[u] \in {"merge_data", "bind_data"} /\ root[u] = root[t] /\ data_enabled )
            => Blocked(u))

\* A view bound to r1 has just recorded an entry while a merge_into of a Fresh
\* table with entries, for the same root, waits.
C14_MergeWaitsForView ==
    /\ last.op = "cache_data_for_key"
    /\ data_mode[last.t] = "ForStorageRoot" /\ root[last.t] = "r1"
    /\ \E u \in Threads \ {last.t} :
          /\ pc[u] = "merge_data" /\ root[u] = "r1"
          /\ fresh[u] # EmptyMap
          /\ \E k \in DOMAIN fresh[u] : k \notin DOMAIN data_cache["r1"]

\* ------------------------------------------------------------- C15
\* C15: every live view holds a read guard of the shared node map; a thread that
\* opens a view never waits for other readers, only for a writer; the shared node
\* map changes only in a step before and after which no read guard is held, so it
\* is the same in every state in which a view lives.
C15_NodeMapReadSharedWriteExclusive ==
    /\ [](\A t \in Threads : pc[t] \in {"view", "merge_data"} => t \in node_readers)
    /\ [](\A t \in Threads :
            (pc[t] = "mbind_node" /\ node_writer = NoThread) => ENABLED AsTrieDbMutCache_Node(t))
    /\ [](\A t \in Threads :
            (pc[t] = "bind_node" /\ node_writer = NoThread) => ENABLED AsTrieDbCache_Node(t))
    /\ [][node_cache' # node_cache => (node_readers = {} /\ node_readers' = {})]_vars
    /\ [][\A t \in Threads :
            (t \in node_readers /\ t \in node_readers') => node_cache' = node_cache]_vars

\* Two views of different Local Caches are alive, one of them with a node in its
\* overlay, while the release of a third Local Cache that holds a node waits.
C15_ReleaseWaitsForViews ==
    \E t \in Threads :
        /\ pc[t] = "drop_wait" /\ local[t] # EmptyMap
        /\ \A u \in Threads \ {t} : pc[u] = "view" /\ u \in node_readers
        /\ \E u \in Threads \ {t} : local[u] # EmptyMap

\* ------------------------------------------------------------- C16
\* C16: a get_node or get_or_insert_node for a hash that both the shared node map
\* and the overlay hold returns the node of the shared node map, invokes no fetch
\* and leaves the overlay as it was.
C16_SharedBeforeLocal ==
    [][( /\ last'.op \in {"get_node", "get_or_insert_node"}
         /\ last'.args[1] \in DOMAIN node_cache
         /\ last'.args[1] \in DOMAIN local[last'.t] )
       => /\ last'.res = node_cache[last'.args[1]]
          /\ ~last'.fetch
          /\ local' = local]_vars

\* A get_node has returned the node of the shared node map for a hash under which
\* the overlay holds another node.
C16_SharedShadowsOverlay ==
    /\ last.op = "get_node"
    /\ last.args[1] \in DOMAIN node_cache
    /\ last.args[1] \in DOMAIN local[last.t]
    /\ node_cache[last.args[1]] # local[last.t][last.args[1]]
    /\ last.res = node_cache[last.args[1]]

C18_MergeIdempotent ==
    /\ [][\A t \in Threads :
            (pc[t] = "merge_data" /\ pc'[t] = "local") =>
              LET r == root[t]
                  f == fresh[t]
                  old == TableOf(data_cache, r)
              IN  /\ ( /\ r \in DOMAIN data_cache
                       /\ \A k \in DOMAIN f : k \in DOMAIN old /\ old[k] = f[k] )
                     => data_cache' = data_cache
                  /\ Extend(data_cache'[r], f) = data_cache'[r]]_vars
    /\ [][( /\ last.op = "merge_into" /\ 2 \in DOMAIN last.args
             /\ last'.op = "merge_into" /\ 2 \in DOMAIN last'.args
             /\ last'.args[1] = last.args[1] )
           => LET f1 == last.args[2]
                  f2 == last'.args[2]
                  table == data_cache'[last'.args[1]]
              IN  /\ \A k \in DOMAIN f2 : table[k] = f2[k]
                  /\ \A k \in (DOMAIN f1) \ (DOMAIN f2) : table[k] = f1[k]
                  /\ f1 = f2 => data_cache' = data_cache]_vars

\* A merge_into has completed whose Fresh table held a value and a no-value entry
\* and found both already in the table of its root.
C18_MergedTwice ==
    /\ last.op = "merge_into" /\ 2 \in DOMAIN last.args
    /\ DOMAIN last.args[2] = Keys
    /\ last.args[2]["k1"] # last.args[2]["k2"]
    /\ last.res = last.args[2]
    /\ data_cache[last.args[1]] = last.args[2]

C20_DataMapOnlyGrows ==
    [][\A r \in DOMAIN data_cache :
          /\ r \in DOMAIN data_cache'
          /\ \A k \in DOMAIN data_cache[r] : k \in DOMAIN data_cache'[r]]_vars

\* A bound view has just recorded a no-value entry, every root has a table and
\* every table holds every key.
C20_NoValueRecordedInFullMap ==
    /\ last.op = "cache_data_for_key" /\ last.args[2] = NoneBytes
    /\ data_mode[last.t] = "ForStorageRoot"
    /\ DOMAIN data_cache = Roots
    /\ \A r \in Roots : DOMAIN data_cache[r] = Keys

====
